---- MODULE Spec2Model ----
(***************************************************************************)
(* Model of the virtualised vertical menu (VerticalMenu / DBMenu) of       *)
(* src/ftxui/component/menu.cpp, driven by the reference data source of    *)
(* examples/component/menu_datasource_1m.cpp (ids are the indexes          *)
(* 0..size-1 of the items vector).  The variable source selects the kind   *)
(* of data source: the reference one, one whose transform mutates ctx.id,  *)
(* or one with non-contiguous ids.                                         *)
(*                                                                         *)
(* One frame is three steps, in the order the toolkit runs them:           *)
(*   Render          VerticalMenu::Render (placement + production)         *)
(*   Reflect         DataSourceReflect::Render (measure, redraw decision,  *)
(*                   children boxes written back by reflect())             *)
(*   ScrollIndicator DataSourceScrollIndicator::Render (after its child)   *)
(* Events, resizes and application writes happen between frames.           *)
(*                                                                         *)
(* The scroll indicator's 32-bit float positions are modelled by exact     *)
(* rationals with the common denominator items_total.                      *)
(***************************************************************************)
EXTENDS Integers, Sequences, FiniteSets, TLC

\* ------------------------------------------------------------------ bounds
MaxN == 4          \* largest dataset size explored
MaxH == 3          \* largest pane height explored
MaxRun == 3        \* cap of the consecutive-redraw counter
MaxNInput == 3     \* largest dataset size explored with input events
MaxHInput == 2     \* largest pane height explored with input events
MinLongN == 5      \* smallest of the long datasets
MaxLongN == 6      \* largest of the long datasets
MaxLongH == 2      \* largest pane height explored with long datasets
MaxEntries == 3    \* largest classic menu explored
MaxOff == 1        \* how far out of range the application writes selected
MaxPage == 1       \* largest box_.y_max - box_.y_min of a classic menu

\* ------------------------------------------------------- program constants
NoneId == -1       \* hovered_id "none" sentinel
PaneX == 1         \* column of the (one cell wide) row area of the pane
PaneY == 1         \* first line of the pane (below the window border)

VARIABLES
  ds_size,             \* items.size() of the application's dataset
  pane_h,              \* height the layout gives the pane in the next frame
  comp_focused,        \* Focused(): the component holds keyboard focus
  focused_id, hovered_id, estimated_start_id, real_start_id, items_visible,
  items_total, items_produced, component_height, screen_height,
  should_redraw,
  box_,                \* VerticalMenu::box_
  boxes_,              \* VerticalMenu::boxes_
  pc,                  \* position inside the frame
  last_op,             \* the kind of the step taken last
  transform_calls,     \* contexts handed to transform in the current frame
  redraw_requested,    \* invoke_redraw() was called by the last Reflect
  redraw_run,          \* consecutive frames that called invoke_redraw()
  ev,                  \* what OnEvent saw and answered, if it was the last step
  source,              \* the kind of DataSource the application supplies
  move_calls,          \* move_id_by calls of the render pass of this frame
  classic,             \* a classic menu (MenuBase), explored on its own
  probe                \* a direct use of move_id_by (round trips)

menu_vars == << ds_size, pane_h, comp_focused, focused_id, hovered_id,
                estimated_start_id, real_start_id, items_visible, items_total,
                items_produced, component_height, screen_height,
                should_redraw, box_, boxes_, pc, last_op, transform_calls,
                redraw_requested, redraw_run, ev, source, move_calls >>

vars == << menu_vars, probe, classic >>

\* ev: the event's code, whether CaptureMouse granted the capture, whether the
\* mouse was inside box_, the index of the child box under the mouse (-1 for
\* none), ctx.handled after the viewport's own handling, the
\* hook installed, how often it was called, the ctx.handled and focused_id it
\* saw, its verdict, and the value OnEvent returned
NoEvent == [code |-> "none", capture |-> FALSE, in_pane |-> FALSE, hit |-> -1,
            handled |-> FALSE, hook |-> "none", hook_calls |-> 0,
            hook_saw |-> FALSE, hook_fid |-> 0, hook_ret |-> FALSE,
            ret |-> FALSE]

Min(a, b) == IF a <= b THEN a ELSE b
Max(a, b) == IF a >= b THEN a ELSE b

\* ------------------------------------------------------------- data source

\* The reference data source: ids are the indexes of the items vector, and
\* transform leaves ctx.id alone.  Two more kinds of data source are explored:
\* one whose ids are stride apart (0, stride, 2 * stride, ...), and one whose
\* transform moves ctx.id forward by shift before it returns.
ReferenceSource == [shift |-> 0, stride |-> 1]

\* distance between two neighbouring ids of the dataset
Stride == source.stride

\* the ids of a dataset of size rows
DatasetIds(size) == {Stride * i : i \in 0..(size - 1)}

\* dataset_size(): {total, starting_id, ending_id}
dataset_size(size) ==
  [total |-> size, starting_id |-> 0, ending_id |-> Stride * (size - 1)]

\* count_items_before(from_id)
count_items_before(from_id) == from_id \div Stride

\* a move_id_by that clamps the low end one row too late
MoveTo_low_clamp_1(from, offset, size) ==
  Max(1, Min(from + offset, size - 1))

\* move_id_by: the value left in `from`
MoveTo(from, offset, size) ==
  Stride * Max(0, Min((from \div Stride) + offset, size - 1))

\* move_id_by: the value returned
MoveOk(from, offset, size) == MoveTo(from, offset, size) # from

\* --------------------------------------------------------------- toolkit

Box(x0, x1, y0, y1) == [x_min |-> x0, x_max |-> x1, y_min |-> y0, y_max |-> y1]

DefaultBox == Box(0, 0, 0, 0)

Intersection(a, b) ==
  Box(Max(a.x_min, b.x_min), Min(a.x_max, b.x_max),
      Max(a.y_min, b.y_min), Min(a.y_max, b.y_max))

Contain(b, x, y) ==
  b.x_min <= x /\ x <= b.x_max /\ b.y_min <= y /\ b.y_max >= y

\* std::vector::resize: keep a prefix, pad with value-initialised boxes
Resize(s, n) ==
  [i \in 1..n |-> IF i <= Len(s) THEN s[i] ELSE DefaultBox]

\* ------------------------------------------------------------- placement

RECURSIVE BackWalk(_, _, _, _)
\* find_start_id, inner loop: prepend rows by decrementing start_id
BackWalk(start_id, items_placed, H, size) ==
  IF items_placed < H
    THEN IF ~MoveOk(start_id, -1, size)
           THEN start_id
           ELSE BackWalk(MoveTo(start_id, -1, size), items_placed + 1, H, size)
    ELSE start_id

RECURSIVE FwdWalk(_, _, _, _, _)
\* find_start_id, outer loop: walk id forward until the pane is full
FwdWalk(id, start_id, items_placed, H, size) ==
  IF items_placed < H
    THEN IF ~MoveOk(id, 1, size)
           THEN BackWalk(start_id, items_placed + 1, H, size)
           ELSE FwdWalk(MoveTo(id, 1, size), start_id, items_placed + 1, H, size)
    ELSE start_id

\* no move_id_by call was made
NoCalls == [jump |-> 0, forward |-> 0, back |-> 0, render |-> 0]

RECURSIVE BackCalls(_, _, _, _)
\* find_start_id, inner loop: the number of move_id_by(start_id, -1) calls
BackCalls(start_id, items_placed, H, size) ==
  IF items_placed < H
    THEN IF ~MoveOk(start_id, -1, size)
           THEN 1
           ELSE 1 + BackCalls(MoveTo(start_id, -1, size), items_placed + 1,
                              H, size)
    ELSE 0

RECURSIVE FwdCalls(_, _, _, _, _)
\* find_start_id, outer loop: the number of move_id_by(id, 1) calls and of
\* move_id_by(start_id, -1) calls
FwdCalls(id, start_id, items_placed, H, size) ==
  IF items_placed < H
    THEN IF ~MoveOk(id, 1, size)
           THEN [forward |-> 1,
                 back |-> BackCalls(start_id, items_placed + 1, H, size)]
           ELSE LET r == FwdCalls(MoveTo(id, 1, size), start_id,
                                  items_placed + 1, H, size)
                IN  [forward |-> r.forward + 1, back |-> r.back]
    ELSE [forward |-> 0, back |-> 0]

RECURSIVE FwdCallsToEnd(_, _, _, _, _)
FwdCallsToEnd(id, start_id, items_placed, H, size) ==
  IF ~MoveOk(id, 1, size)
    THEN [forward |-> 1, back |-> 0]
    ELSE LET r == FwdCallsToEnd(MoveTo(id, 1, size), start_id,
                                items_placed + 1, H, size)
         IN  [forward |-> r.forward + 1, back |-> r.back]

\* a find_start_id that walks forward to the end of the dataset
find_start_id_calls_to_end(focused, H, size) ==
  LET start_id == MoveTo(focused, -(H \div 2), size)
      r == FwdCallsToEnd(start_id, start_id, 0, H, size)
  IN  [jump |-> 1, forward |-> r.forward, back |-> r.back]

\* the move_id_by calls of VerticalMenu::find_start_id: the initial jump, the
\* forward probes and the backward probes
find_start_id_calls(focused, H, size) ==
  LET start_id == MoveTo(focused, -(H \div 2), size)
      r == FwdCalls(start_id, start_id, 0, H, size)
  IN  [jump |-> 1, forward |-> r.forward, back |-> r.back]

\* find_start_id that jumps back by the whole pane height
find_start_id_full_jump(focused, H, size) ==
  LET start_id == MoveTo(focused, -H, size)
  IN  FwdWalk(start_id, start_id, 0, H, size)

RECURSIVE FwdWalkNoBack(_, _, _, _, _)
FwdWalkNoBack(id, start_id, items_placed, H, size) ==
  IF items_placed < H /\ MoveOk(id, 1, size)
    THEN FwdWalkNoBack(MoveTo(id, 1, size), start_id, items_placed + 1, H, size)
    ELSE start_id

\* find_start_id that never pulls the viewport up at the tail
find_start_id_no_back(focused, H, size) ==
  LET start_id == MoveTo(focused, -(H \div 2), size)
  IN  FwdWalkNoBack(start_id, start_id, 0, H, size)

RECURSIVE FwdWalkNoBump(_, _, _, _, _)
FwdWalkNoBump(id, start_id, items_placed, H, size) ==
  IF items_placed < H
    THEN IF ~MoveOk(id, 1, size)
           THEN BackWalk(start_id, items_placed, H, size)
           ELSE FwdWalkNoBump(MoveTo(id, 1, size), start_id, items_placed + 1,
                              H, size)
    ELSE start_id

\* find_start_id without the increment at the end of the source list
find_start_id_no_bump(focused, H, size) ==
  LET start_id == MoveTo(focused, -(H \div 2), size)
  IN  FwdWalkNoBump(start_id, start_id, 0, H, size)

\* a find_start_id that always shows the head of the dataset
find_start_id_top(focused, H, size) == MoveTo(0, 0, size)

\* VerticalMenu::find_start_id; -component_height / 2 truncates toward zero
find_start_id(focused, H, size) ==
  LET start_id == MoveTo(focused, -(H \div 2), size)
  IN  FwdWalk(start_id, start_id, 0, H, size)

\* ------------------------------------------------------------ render pass

RECURSIVE RenderWalkOffByOne(_, _, _, _)
RenderWalkOffByOne(id, ids, H, size) ==
  IF Len(ids) <= H
    THEN IF ~MoveOk(id, 1, size)
           THEN Append(ids, id)
           ELSE RenderWalkOffByOne(MoveTo(id, 1, size), Append(ids, id), H, size)
    ELSE ids

RECURSIVE RenderWalkSkip(_, _, _, _)
RenderWalkSkip(id, ids, H, size) ==
  IF Len(ids) < H
    THEN IF ~MoveOk(id, 2, size)
           THEN Append(ids, id)
           ELSE RenderWalkSkip(MoveTo(id, 2, size), Append(ids, id), H, size)
    ELSE ids

\* row_info.id after transform(row_info) returned: transform takes the
\* context by reference
TransformLeaves(id) == id + source.shift

RECURSIVE RenderWalk(_, _, _, _)
\* the while loop of VerticalMenu::Render: the ids handed to transform; the
\* loop advances with move_id_by(row_info.id, 1) from the id transform left
RenderWalk(id, ids, H, size) ==
  IF Len(ids) < H
    THEN LET left == TransformLeaves(id)
         IN  IF ~MoveOk(left, 1, size)
               THEN Append(ids, id)
               ELSE RenderWalk(MoveTo(left, 1, size), Append(ids, id), H, size)
    ELSE ids

\* a render loop that emits one row more than the pane holds
RenderIdsOffByOne(start, H, size) ==
  IF size # 0 THEN RenderWalkOffByOne(start, << >>, H, size) ELSE << >>

\* a render loop that advances two rows per emitted row
RenderIdsSkip(start, H, size) ==
  IF size # 0 THEN RenderWalkSkip(start, << >>, H, size) ELSE << >>

\* a render pass that enters the loop without testing items_total
RenderIdsNoGuard(start, H, size) == RenderWalk(start, << >>, H, size)

\* if (items_total) { while ... }
RenderIds(start, H, size) ==
  IF size # 0 THEN RenderWalk(start, << >>, H, size) ELSE << >>

\* VerticalMenu::Render
Render ==
  /\ pc = "idle"
  /\ LET H     == component_height
         total == dataset_size(ds_size).total
         start == find_start_id(focused_id, H, ds_size)
         ids   == RenderIds(start, H, total)
     IN  /\ items_total' = total
         /\ estimated_start_id' = start
         /\ transform_calls' =
              [i \in 1..Len(ids) |->
                 [id |-> ids[i],
                  focused |-> (focused_id = ids[i]),
                  hovered |-> (hovered_id = ids[i]),
                  component_focused |-> comp_focused]]
         /\ items_produced' = Len(ids)
         /\ boxes_' = Resize(Resize(boxes_, H), Len(ids))
         /\ move_calls' =
              LET c == find_start_id_calls(focused_id, H, ds_size)
              IN  [jump |-> c.jump, forward |-> c.forward, back |-> c.back,
                   render |-> Len(ids)]
  /\ pc' = "rendered"
  /\ last_op' = "render"
  /\ ev' = NoEvent
  /\ UNCHANGED << ds_size, pane_h, comp_focused, focused_id, hovered_id,
                  real_start_id, items_visible, component_height,
                  screen_height, should_redraw, box_, redraw_requested,
                  redraw_run, probe, source, classic >>

\* --------------------------------------------------------- layout (toolkit)

\* screen.dimy(): the pane sits in a window with one border line above and below
ScreenDimY(h) == h + 2 * PaneY

\* screen.stencil while the pane is rendered
Stencil(h) == Box(0, PaneX + 2, 0, ScreenDimY(h) - 1)

\* the box the layout hands to the scroll indicator (SetBox)
IndicatorBox(h) == Box(PaneX, PaneX + 1, PaneY, PaneY + h - 1)

\* DataSourceScrollIndicator::SetBox: the child loses the right-most column
PaneBox(h) == [IndicatorBox(h) EXCEPT !.x_max = @ - 1]

\* reflect(boxes_[i]) of the i-th row (one line high, stacked in a yframe),
\* intersected with the frame's stencil when it is rendered
ChildBox(i, h) ==
  Intersection(Intersection(Stencil(h), PaneBox(h)),
               Box(PaneX, PaneX, PaneY + i, PaneY + i))

\* ------------------------------------------------------- reflect / redraw

\* a reflect step that only honours the should_redraw flag
NeedRedrawFlagOnly(flag, total, produced, height) == flag

\* redraw predicate without the "pane is exactly full" escape
NeedRedrawNoMatch(flag, total, produced, height) ==
  flag \/ (~(total = produced) /\ total > height)

\* the condition of DataSourceReflect::Render that guards invoke_redraw()
NeedRedraw(flag, total, produced, height) ==
  LET all_items_visible == total = produced
      rowcount_larger_than_component == total > height
      menu_matched_rowcount == height = produced
  IN  flag \/ (~all_items_visible /\ rowcount_larger_than_component
                 /\ ~menu_matched_rowcount)

\* DataSourceReflect::Render, then the rows' reflect() nodes
Reflect ==
  /\ pc = "rendered"
  /\ LET b      == Intersection(Stencil(pane_h), PaneBox(pane_h))
         height == b.y_max - b.y_min + 1
         redraw == NeedRedraw(should_redraw, items_total, items_produced, height)
     IN  /\ screen_height' = ScreenDimY(pane_h)
         /\ box_' = b
         /\ component_height' = height
         /\ should_redraw' = IF redraw THEN FALSE ELSE should_redraw
         /\ redraw_requested' = redraw
         /\ redraw_run' = IF redraw THEN Min(redraw_run + 1, MaxRun) ELSE 0
  /\ boxes_' = [i \in 1..Len(boxes_) |-> ChildBox(i - 1, pane_h)]
  /\ pc' = "reflected"
  /\ last_op' = "reflect"
  /\ UNCHANGED << ds_size, pane_h, comp_focused, focused_id, hovered_id,
                  estimated_start_id, real_start_id, items_visible,
                  items_total, items_produced, transform_calls, ev, probe, source,
                  move_calls, classic >>

\* --------------------------------------------------------- scroll indicator

\* VerticalMenu::count_valid_boxes
count_valid_boxes(boxes) ==
  LET ok == {i \in 1..Len(boxes) : boxes[i].y_max >= boxes[i].y_min}
  IN  [valid |-> Cardinality(ok),
       first_visible |-> IF ok = {} THEN -1
                         ELSE (CHOOSE i \in ok : \A j \in ok : i <= j) - 1,
       total |-> Len(boxes)]

\* a scroll indicator that is drawn for every non-empty dataset
IndicatorDrawnWhenFull(produced, total) == total > 0

\* the scroll bar is drawn unless items_produced >= items_total
IndicatorDrawn(produced, total) == ~(produced >= total)

\* DataSourceScrollIndicator::Render (after NodeDecorator::Render of its
\* child): the writes to the data source; the cells it writes to the screen
\* are ScrollCells below
ScrollIndicator ==
  /\ pc = "reflected"
  /\ IF ~IndicatorDrawn(items_produced, items_total)
       THEN UNCHANGED << real_start_id, items_visible >>
       ELSE LET valid_count == count_valid_boxes(boxes_)
            IN  /\ real_start_id' =
                     estimated_start_id + valid_count.first_visible
                /\ items_visible' = valid_count.valid
  /\ pc' = "idle"
  /\ last_op' = "scroll"
  /\ transform_calls' = << >>
  /\ move_calls' = NoCalls
  /\ UNCHANGED << ds_size, pane_h, comp_focused, focused_id, hovered_id,
                  estimated_start_id, items_total, items_produced,
                  component_height, screen_height, should_redraw, box_,
                  boxes_, redraw_requested, redraw_run, ev, probe, source,
                  classic >>

\* The scroll bar's geometry, as exact fractions over items_total:
\*   start_y = y_min + start_point, start_point = (items_before / N) * h
\*   end_y   = y_min + end_point,   end_point = start_point + (visible / N) * h
\* StartNum / EndNum are start_point * N and end_point * N.
WidgetHeight(bx) == bx.y_max - bx.y_min + 1
StartNum(real, bx) == count_items_before(real) * WidgetHeight(bx)
EndNum(real, visible, bx) == StartNum(real, bx) + visible * WidgetHeight(bx)

\* int(a / b) for b > 0: the float-to-int conversion truncates toward zero
Trunc(a, b) == IF a >= 0 THEN a \div b ELSE -((-a) \div b)

\* a/b - int(a/b) < quarters/4: the 0.25 and 0.75 thresholds
FracLt(a, b, quarters) == 4 * (a - b * Trunc(a, b)) < quarters * b

\* the cells DataSourceScrollIndicator::Render writes, in the order written,
\* for start_y = a0 / den and end_y = a1 / den
IndicatorPixels(a0, a1, den, bx) ==
  LET sy == Trunc(a0, den)
      ey == Trunc(a1, den)
      first == << [x |-> bx.x_max, y |-> sy,
                   ch |-> IF FracLt(a0, den, 1) THEN "full" ELSE "half_down"] >>
      last  == IF ey <= bx.y_max
                 THEN << [x |-> bx.x_max, y |-> ey,
                          ch |-> IF FracLt(a1, den, 1) THEN "blank"
                                 ELSE IF FracLt(a1, den, 3) THEN "half_up"
                                 ELSE "full"] >>
                 ELSE << >>
      last_full_y == Min(ey - 1, bx.y_max)
      mid   == [k \in 1..Max(0, last_full_y - sy) |->
                  [x |-> bx.x_max, y |-> sy + k, ch |-> "full"]]
  IN  first \o last \o mid

\* the cells the scroll indicator of the frame just finished wrote to the
\* screen, in the order written (read right after ScrollIndicator, when
\* real_start_id and items_visible are the values it computed)
ScrollCells ==
  IF ~IndicatorDrawn(items_produced, items_total)
    THEN << >>
    ELSE LET bx == IndicatorBox(pane_h)
             y0 == bx.y_min * items_total
         IN  IndicatorPixels(y0 + StartNum(real_start_id, bx),
                             y0 + EndNum(real_start_id, items_visible, bx),
                             items_total, bx)

\* the cell written by the i-th write is not written again later
LastWrite(cells, i) ==
  \A j \in (i + 1)..Len(cells) :
     ~(cells[j].x = cells[i].x /\ cells[j].y = cells[i].y)

\* ------------------------------------------------------------ input dispatch

Keys == {"ArrowUp", "ArrowDown", "PageUp", "PageDown", "Home", "End", "Return"}
Buttons == {"WheelUp", "WheelDown", "Left", "None"}
\* mouse positions: in the row area or on the indicator column; on every line
\* of the screen
MouseXs == {PaneX, PaneX + 1}
MouseYs(h) == 0..(ScreenDimY(h) - 1)

KeyEvents == [is_mouse : {FALSE}, code : Keys, x : {0}, y : {0}]
MouseEvents(h) == [is_mouse : {TRUE}, code : Buttons, x : MouseXs, y : MouseYs(h)]

\* index (from 0) of the first child box mouse_click / mouse_move accept, or -1
HitIndex(boxes, bx, x, y) ==
  LET hit == {i \in 1..Len(boxes) :
                Contain(boxes[i], x, y) /\ ~(boxes[i].y_min > bx.y_max)}
  IN  IF hit = {} THEN -1 ELSE (CHOOSE i \in hit : \A j \in hit : i <= j) - 1

\* a mouse_wheel that answers whether focused_id moved
mouse_wheel_reports_move(e, fid, bx, size) ==
  IF e.code \in {"WheelDown", "WheelUp"} /\ Contain(bx, e.x, e.y)
    THEN LET to == IF e.code = "WheelDown" THEN MoveTo(fid, 1, size)
                   ELSE MoveTo(fid, -1, size)
         IN  [ret |-> to # fid, focused_id |-> to]
    ELSE [ret |-> FALSE, focused_id |-> fid]

\* VerticalMenu::mouse_wheel
mouse_wheel(e, fid, bx, size) ==
  IF e.code \in {"WheelDown", "WheelUp"}
    THEN IF ~Contain(bx, e.x, e.y)
           THEN [ret |-> FALSE, focused_id |-> fid]
           ELSE [ret |-> TRUE,
                 focused_id |-> IF e.code = "WheelDown"
                                  THEN MoveTo(fid, 1, size)
                                  ELSE MoveTo(fid, -1, size)]
    ELSE [ret |-> FALSE, focused_id |-> fid]

\* a mouse_click that puts the cursor on the first row of the frame
mouse_click_at_top(e, fid, est, boxes, bx, size) ==
  LET i == HitIndex(boxes, bx, e.x, e.y)
  IN  IF e.code = "Left" /\ i >= 0
        THEN [ret |-> TRUE, focused_id |-> est]
        ELSE [ret |-> FALSE, focused_id |-> fid]

\* VerticalMenu::mouse_click
mouse_click(e, fid, est, boxes, bx, size) ==
  LET i == HitIndex(boxes, bx, e.x, e.y)
  IN  IF e.code = "Left" /\ i >= 0
        THEN [ret |-> TRUE, focused_id |-> MoveTo(est, i, size)]
        ELSE [ret |-> FALSE, focused_id |-> fid]

\* VerticalMenu::mouse_move
mouse_move(e, est, boxes, bx, size) ==
  LET i == HitIndex(boxes, bx, e.x, e.y)
  IN  IF i >= 0
        THEN [ret |-> TRUE, hovered_id |-> MoveTo(est, i, size)]
        ELSE [ret |-> FALSE, hovered_id |-> NoneId]

\* the key table of VerticalMenu::OnEvent (component focused)
KeyStep(code, fid, height, size) ==
  CASE code = "ArrowUp"   -> MoveTo(fid, -1, size)
    [] code = "ArrowDown" -> MoveTo(fid, 1, size)
    [] code = "PageUp"    -> MoveTo(fid, -height, size)
    [] code = "PageDown"  -> MoveTo(fid, height, size)
    [] code = "Home"      -> MoveTo(dataset_size(size).starting_id, 0, size)
    [] code = "End"       -> MoveTo(dataset_size(size).ending_id, 0, size)
    [] OTHER              -> fid

\* an OnEvent that skips the initial move_id_by(focused_id, 0)
EntryClampMissing(fid, size) == fid

\* OnEvent's first statement: move_id_by(focused_id, 0)  // << Clamp()
EntryClamp(fid, size) == MoveTo(fid, 0, size)

\* data_->on_event(ctx): the application's verdict; the default hook answers
\* ctx.handled
HookReturn(hook, handled) ==
  CASE hook = "true" -> TRUE [] hook = "false" -> FALSE [] OTHER -> handled

Hooks == {"default", "true", "false"}

\* an OnEvent that handles the event whether or not the capture was granted
MouseOursAlways(capture) == TRUE

\* ctx.mouse_ours = CaptureMouse(event) != nullptr
MouseOurs(capture) == capture

\* a keyboard path that reports every key as handled
KeyHandledAlways(fid, start) == TRUE

\* ctx.handled of the keyboard path: focused_id != ctx.starting_focused_id
KeyHandled(fid, start) == fid # start

\* an OnEvent that answers its own ctx.handled, whatever the hook said
OnEventReturnsHandled(handled, verdict) == handled

\* return data_->on_event(ctx): OnEvent answers the hook's verdict
OnEventReturn(handled, verdict) == verdict

\* the record of an event that reached data_->on_event(ctx): the hook is
\* called once, after the viewport's handling, and sees ctx.handled and the
\* focused_id the handling left
HookedEvent(e, capture, hook, in_pane, hit, handled, fid) ==
  [code |-> e.code, capture |-> capture, in_pane |-> in_pane, hit |-> hit,
   handled |-> handled, hook |-> hook, hook_calls |-> 1,
   hook_saw |-> handled, hook_fid |-> fid,
   hook_ret |-> HookReturn(hook, handled),
   ret |-> OnEventReturn(handled, HookReturn(hook, handled))]

\* VerticalMenu::OnEvent
OnEvent(e, capture, hook) ==
  LET start == EntryClamp(focused_id, ds_size)
  IN
  /\ pc = "idle"
  /\ IF ~MouseOurs(capture)
       THEN /\ focused_id' = start
            /\ ev' = [NoEvent EXCEPT !.code = e.code]
            /\ UNCHANGED << hovered_id, comp_focused >>
       ELSE IF e.is_mouse
         THEN LET w == mouse_wheel(e, start, box_, ds_size)
                  c == mouse_click(e, start, estimated_start_id, boxes_, box_,
                                   ds_size)
                  m == mouse_move(e, estimated_start_id, boxes_, box_, ds_size)
                  handled == w.ret \/ c.ret \/ m.ret
                  fid == IF w.ret THEN w.focused_id
                         ELSE IF c.ret THEN c.focused_id ELSE start
              IN  /\ focused_id' = fid
                  /\ comp_focused' = IF ~w.ret /\ c.ret THEN TRUE
                                     ELSE comp_focused
                  /\ hovered_id' = IF ~w.ret /\ ~c.ret THEN m.hovered_id
                                   ELSE hovered_id
                  /\ ev' = HookedEvent(e, capture, hook,
                                       Contain(box_, e.x, e.y),
                                       HitIndex(boxes_, box_, e.x, e.y),
                                       handled, fid)
         ELSE LET fid == IF comp_focused
                           THEN KeyStep(e.code, start, items_visible, ds_size)
                           ELSE start
                  handled == KeyHandled(fid, start)
              IN  /\ focused_id' = fid
                  /\ ev' = HookedEvent(e, capture, hook, FALSE, -1, handled, fid)
                  /\ UNCHANGED << hovered_id, comp_focused >>
  /\ last_op' = "event"
  /\ UNCHANGED << ds_size, pane_h, estimated_start_id, real_start_id,
                  items_visible, items_total, items_produced,
                  component_height, screen_height, should_redraw, box_,
                  boxes_, pc, transform_calls, redraw_requested, redraw_run,
                  probe, source,
                  move_calls, classic >>

\* --------------------------------------------------------------- environment

\* the terminal is resized: the layout will give the pane another height
ResizePane(h) ==
  /\ pc = "idle"
  /\ h # pane_h
  /\ pane_h' = h
  /\ redraw_run' = 0
  /\ last_op' = "env"
  /\ ev' = NoEvent
  /\ UNCHANGED << ds_size, comp_focused, focused_id, hovered_id,
                  estimated_start_id, real_start_id, items_visible,
                  items_total, items_produced, component_height,
                  screen_height, should_redraw, box_, boxes_, pc,
                  transform_calls, redraw_requested, probe, source,
                  move_calls, classic >>

\* the application writes data_source.focused_id
SetFocusedId(id) ==
  /\ pc = "idle"
  /\ id # focused_id
  /\ focused_id' = id
  /\ last_op' = "env"
  /\ ev' = NoEvent
  /\ UNCHANGED << ds_size, pane_h, comp_focused, hovered_id,
                  estimated_start_id, real_start_id, items_visible,
                  items_total, items_produced, component_height,
                  screen_height, should_redraw, box_, boxes_, pc,
                  transform_calls, redraw_requested, redraw_run, probe, source,
                  move_calls, classic >>

\* the application sets data_source.should_redraw
SetShouldRedraw ==
  /\ pc = "idle"
  /\ ~should_redraw
  /\ should_redraw' = TRUE
  /\ redraw_run' = 0
  /\ last_op' = "env"
  /\ ev' = NoEvent
  /\ UNCHANGED << ds_size, pane_h, comp_focused, focused_id, hovered_id,
                  estimated_start_id, real_start_id, items_visible,
                  items_total, items_produced, component_height,
                  screen_height, box_, boxes_, pc, transform_calls,
                  redraw_requested, probe, source,
                  move_calls, classic >>

\* keyboard focus moves to another component of the application
LoseFocus ==
  /\ pc = "idle"
  /\ comp_focused
  /\ comp_focused' = FALSE
  /\ last_op' = "env"
  /\ ev' = NoEvent
  /\ UNCHANGED << ds_size, pane_h, focused_id, hovered_id,
                  estimated_start_id, real_start_id, items_visible,
                  items_total, items_produced, component_height,
                  screen_height, should_redraw, box_, boxes_, pc,
                  transform_calls, redraw_requested, redraw_run, probe, source,
                  move_calls, classic >>

\* --------------------------------------------------------------- the system

\* no classic menu is explored
NoClassic == [last |-> "off"]

NoProbe == [pc |-> "off", size |-> 0, id0 |-> 0, k |-> 0, id |-> 0]

\* the state after construction, for a dataset of n rows in a pane the layout
\* will make h lines high
MenuInit(n, h) ==
  /\ ds_size = n
  /\ pane_h = h
  /\ comp_focused = TRUE
  /\ focused_id = 0
  /\ hovered_id = NoneId
  /\ estimated_start_id = 0
  /\ real_start_id = 0
  /\ items_visible = 0
  /\ items_total = 0
  /\ items_produced = 0
  /\ component_height = 0
  /\ screen_height = 0
  /\ should_redraw = FALSE
  /\ box_ = DefaultBox
  /\ boxes_ = << >>
  /\ pc = "idle"
  /\ last_op = "init"
  /\ transform_calls = << >>
  /\ redraw_requested = FALSE
  /\ redraw_run = 0
  /\ ev = NoEvent
  /\ move_calls = NoCalls

Init ==
  /\ \E n \in 0..MaxN, h \in 0..MaxH : MenuInit(n, h)
  /\ source = ReferenceSource
  /\ probe = NoProbe
  /\ classic = NoClassic

\* the complete system: frames, input events, the application and the terminal
Next ==
  \/ Render
  \/ Reflect
  \/ ScrollIndicator
  \/ \E e \in KeyEvents \cup MouseEvents(pane_h), capture \in BOOLEAN,
        hook \in Hooks : OnEvent(e, capture, hook)
  \/ \E h \in 0..MaxH : ResizePane(h)
  \/ \E id \in (-1)..ds_size : SetFocusedId(id)
  \/ SetShouldRedraw
  \/ LoseFocus

Spec == Init /\ [][Next]_vars

\* the frame loop: the terminal is resized and the application moves the
\* cursor and asks for redraws, but no input event is delivered
NextFrames ==
  \/ Render
  \/ Reflect
  \/ ScrollIndicator
  \/ \E h \in 0..MaxH : ResizePane(h)
  \/ \E id \in (-1)..ds_size : SetFocusedId(id)
  \/ SetShouldRedraw

SpecFrames == Init /\ [][NextFrames]_vars

\* the frame loop with keyboard events, in a pane of fixed height
NextKeys ==
  \/ Render
  \/ Reflect
  \/ ScrollIndicator
  \/ \E e \in KeyEvents, capture \in BOOLEAN, hook \in Hooks :
       OnEvent(e, capture, hook)
  \/ \E id \in (-1)..ds_size : SetFocusedId(id)
  \/ LoseFocus

SpecKeys == Init /\ [][NextKeys]_vars

\* the state after construction, for the datasets and panes explored with
\* input events
InitInput ==
  /\ \E n \in 0..MaxNInput, h \in 0..MaxHInput : MenuInit(n, h)
  /\ source = ReferenceSource
  /\ probe = NoProbe
  /\ classic = NoClassic

\* an input event is delivered: the capture is granted and the application's
\* hook is one of Hooks, or the capture is denied
Deliver(events) ==
  \/ \E e \in events, hook \in Hooks : OnEvent(e, TRUE, hook)
  \/ \E e \in events : OnEvent(e, FALSE, "default")

\* the frame loop with mouse events, in a pane of fixed height
NextMouse ==
  \/ Render
  \/ Reflect
  \/ ScrollIndicator
  \/ Deliver(MouseEvents(pane_h))
  \/ \E id \in (-1)..ds_size : SetFocusedId(id)
  \/ LoseFocus

SpecMouse == InitInput /\ [][NextMouse]_vars

\* an input event is delivered to an application without a hook of its own
DeliverPlain(events) ==
  \E e \in events, capture \in BOOLEAN : OnEvent(e, capture, "default")

\* the frame loop with mouse events in a terminal that is resized: child boxes
\* of the last frame can be clipped away by a pane that became smaller
NextMouseResize ==
  \/ Render
  \/ Reflect
  \/ ScrollIndicator
  \/ DeliverPlain(MouseEvents(pane_h))
  \/ \E h \in 0..MaxHInput : ResizePane(h)
  \/ \E id \in 0..(ds_size - 1) : SetFocusedId(id)

SpecMouseResize == InitInput /\ [][NextMouseResize]_vars

\* the frame loop with keyboard and mouse events, in a pane of fixed height
NextInput ==
  \/ Render
  \/ Reflect
  \/ ScrollIndicator
  \/ Deliver(KeyEvents \cup MouseEvents(pane_h))
  \/ \E id \in (-1)..ds_size : SetFocusedId(id)
  \/ LoseFocus

SpecInput == InitInput /\ [][NextInput]_vars

\* a data source whose transform moves ctx.id one row forward before it returns
MutatingSource == [shift |-> 1, stride |-> 1]

InitMutating ==
  /\ \E n \in 0..MaxN, h \in 0..MaxH : MenuInit(n, h)
  /\ source = MutatingSource
  /\ probe = NoProbe
  /\ classic = NoClassic

\* the frame loop over a data source whose transform mutates ctx.id
SpecMutating == InitMutating /\ [][NextFrames]_vars

\* datasets several times longer than the pane
InitLong ==
  /\ \E n \in MinLongN..MaxLongN, h \in 0..MaxLongH : MenuInit(n, h)
  /\ source = ReferenceSource
  /\ probe = NoProbe
  /\ classic = NoClassic

\* the frame loop over long datasets in a pane of fixed height
NextLong ==
  \/ Render
  \/ Reflect
  \/ ScrollIndicator
  \/ \E id \in 0..(ds_size - 1) : SetFocusedId(id)
  \/ SetShouldRedraw

SpecLong == InitLong /\ [][NextLong]_vars

\* a data source whose ids are 0, 2, 4, ...
SparseSource == [shift |-> 0, stride |-> 2]

InitSparse ==
  /\ \E n \in 0..MaxN, h \in 0..MaxH : MenuInit(n, h)
  /\ source = SparseSource
  /\ probe = NoProbe
  /\ classic = NoClassic

\* the frame loop over a data source with non-contiguous ids; the application
\* writes ids of the dataset to focused_id
NextSparse ==
  \/ Render
  \/ Reflect
  \/ ScrollIndicator
  \/ \E h \in 0..MaxH : ResizePane(h)
  \/ \E id \in DatasetIds(ds_size) : SetFocusedId(id)
  \/ SetShouldRedraw

SpecSparse == InitSparse /\ [][NextSparse]_vars

\* ------------------------------------------------------------ move_id_by alone

\* data_source.move_id_by(id, +k)
ProbeForward ==
  /\ probe.pc = "start"
  /\ probe' = [probe EXCEPT !.id = MoveTo(probe.id, probe.k, probe.size),
                            !.pc = "forward"]
  /\ UNCHANGED << menu_vars, classic >>

\* data_source.move_id_by(id, -k)
ProbeBack ==
  /\ probe.pc = "forward"
  /\ probe' = [probe EXCEPT !.id = MoveTo(probe.id, -probe.k, probe.size),
                            !.pc = "done"]
  /\ UNCHANGED << menu_vars, classic >>

\* an in-range id of a non-empty dataset and a step k with |k| <= items_total
ProbeInit ==
  /\ \E n \in 1..MaxN, id \in 0..(MaxN - 1), k \in (-MaxN)..MaxN :
       /\ id <= n - 1
       /\ -n <= k /\ k <= n
       /\ probe = [pc |-> "start", size |-> n, id0 |-> id, k |-> k, id |-> id]
  /\ MenuInit(probe.size, 0)
  /\ source = ReferenceSource
  /\ classic = NoClassic

NextMove == ProbeForward \/ ProbeBack

SpecMove == ProbeInit /\ [][NextMove]_vars

\* ------------------------------------------------- the classic menu (MenuBase)

\* util::clamp(v, lo, hi)
UtilClamp(v, lo, hi) == IF v < lo THEN lo ELSE IF hi < v THEN hi ELSE v

\* MenuBase::SelectedTakeFocus
SelectedTakeFocus(c) ==
  [c EXCEPT !.selected_previous = c.selected, !.selected_focus = c.selected]

\* MenuBase::Clamp
MenuClamp(c) ==
  LET t == IF c.selected # c.selected_previous THEN SelectedTakeFocus(c) ELSE c
  IN  [t EXCEPT !.selected = UtilClamp(t.selected, 0, t.size - 1),
                !.selected_previous = UtilClamp(t.selected_previous, 0, t.size - 1),
                !.selected_focus = UtilClamp(t.selected_focus, 0, t.size - 1),
                !.focused_entry = UtilClamp(t.focused_entry, 0, t.size - 1)]

Directions == {"Up", "Down", "Left", "Right"}

\* MenuBase::OnUp / OnDown / OnLeft / OnRight: the new selected
OnUp(dir, sel) ==
  CASE dir = "Up" -> sel + 1 [] dir = "Down" -> sel - 1 [] OTHER -> sel
OnDown(dir, sel) ==
  CASE dir = "Up" -> sel - 1 [] dir = "Down" -> sel + 1 [] OTHER -> sel
OnLeft(dir, sel) ==
  CASE dir = "Left" -> sel + 1 [] dir = "Right" -> sel - 1 [] OTHER -> sel
OnRight(dir, sel) ==
  CASE dir = "Left" -> sel - 1 [] dir = "Right" -> sel + 1 [] OTHER -> sel

\* a Tab that steps without wrapping
TabNextNoWrap(sel, size) == sel + 1

\* Event::Tab: selected = (selected + 1) % size
TabNext(sel, size) == (sel + 1) % size

\* Event::TabReverse: selected = (selected + size - 1) % size
TabPrevious(sel, size) == (sel + size - 1) % size

MenuKeys == {"ArrowUp", "k", "ArrowDown", "j", "ArrowLeft", "h", "ArrowRight",
             "l", "PageUp", "PageDown", "Home", "End", "Tab", "TabReverse",
             "Return"}
MenuButtons == {"WheelUp", "WheelDown", "Left", "None"}

\* the key table of MenuBase::OnEvent, before the final clamp; page is
\* box_.y_max - box_.y_min
MenuKeyStep(code, dir, sel, size, page) ==
  CASE code \in {"ArrowUp", "k"}    -> OnUp(dir, sel)
    [] code \in {"ArrowDown", "j"}  -> OnDown(dir, sel)
    [] code \in {"ArrowLeft", "h"}  -> OnLeft(dir, sel)
    [] code \in {"ArrowRight", "l"} -> OnRight(dir, sel)
    [] code = "PageUp"              -> sel - page
    [] code = "PageDown"            -> sel + page
    [] code = "Home"                -> 0
    [] code = "End"                 -> size - 1
    [] code = "Tab" /\ size # 0     -> TabNext(sel, size)
    [] code = "TabReverse" /\ size # 0 -> TabPrevious(sel, size)
    [] OTHER                        -> sel

\* MenuBase::OnMouseWheel; in_box is box_.Contain(mouse)
OnMouseWheel(c, code, in_box) ==
  IF ~in_box
    THEN [c EXCEPT !.ret = FALSE]
    ELSE LET sel == UtilClamp(IF code = "WheelUp" THEN c.selected - 1
                              ELSE c.selected + 1, 0, c.size - 1)
             t   == [c EXCEPT !.selected = sel, !.ret = TRUE]
         IN  IF sel # c.selected THEN SelectedTakeFocus(t) ELSE t

\* MenuBase::OnMouseEvent; hit is the index of the entry box under the mouse
\* (-1 for none), pressed is motion == Pressed
OnMouseEvent(c, code, in_box, hit, pressed) ==
  IF code \in {"WheelDown", "WheelUp"}
    THEN OnMouseWheel(c, code, in_box)
    ELSE IF hit < 0
      THEN [c EXCEPT !.ret = FALSE]
      ELSE LET t == [c EXCEPT !.focused = TRUE, !.focused_entry = hit]
           IN  IF code = "Left" /\ pressed
                 THEN [t EXCEPT !.ret = TRUE,
                                !.selected = hit,
                                !.selected_previous =
                                   IF c.selected # hit THEN hit ELSE @]
                 ELSE [t EXCEPT !.ret = FALSE]

\* the keyboard part of MenuBase::OnEvent
OnKeyEvent(c, code) ==
  LET sel == IF c.focused
               THEN UtilClamp(MenuKeyStep(code, c.direction, c.selected,
                                          c.size, c.page), 0, c.size - 1)
               ELSE c.selected
  IN  IF sel # c.selected
        THEN SelectedTakeFocus([c EXCEPT !.selected = sel,
                                         !.focused_entry = sel,
                                         !.ret = TRUE])
        ELSE [c EXCEPT !.ret = (code = "Return")]

\* key events, wheel events inside and outside box_, and left-button / plain
\* mouse events over an entry box or over none
MenuEvents(size) ==
  [code : MenuKeys, in_box : {FALSE}, hit : {-1}, pressed : {FALSE}]
    \cup [code : {"WheelUp", "WheelDown"}, in_box : BOOLEAN, hit : {-1},
          pressed : {FALSE}]
    \cup [code : {"Left", "None"}, in_box : {TRUE}, hit : (-1)..(size - 1),
          pressed : BOOLEAN]

\* MenuBase::OnEvent
MenuOnEvent(e, capture) ==
  /\ classic.last # "off"
  /\ LET c == [MenuClamp(classic) EXCEPT !.last = "event", !.code = e.code,
                                         !.capture = capture]
     IN  classic' =
           IF ~capture THEN [c EXCEPT !.ret = FALSE]
           ELSE IF e.code \in MenuButtons
             THEN OnMouseEvent(c, e.code, e.in_box, e.hit, e.pressed)
             ELSE OnKeyEvent(c, e.code)
  /\ UNCHANGED << menu_vars, probe >>

\* MenuBase::Render: Clamp(), then the entries are drawn
MenuRender ==
  /\ classic.last # "off"
  /\ classic' = [MenuClamp(classic) EXCEPT !.last = "render", !.code = "none"]
  /\ UNCHANGED << menu_vars, probe >>

\* the application writes the int behind MenuOption::selected
MenuSetSelected(v) ==
  /\ classic.last # "off"
  /\ v # classic.selected
  /\ classic' = [classic EXCEPT !.selected = v, !.last = "env", !.code = "none"]
  /\ UNCHANGED << menu_vars, probe >>

\* keyboard focus moves to another component of the application
MenuLoseFocus ==
  /\ classic.last # "off"
  /\ classic.focused
  /\ classic' = [classic EXCEPT !.focused = FALSE, !.last = "env",
                                !.code = "none"]
  /\ UNCHANGED << menu_vars, probe >>

\* the values the application may have in selected: in and out of range
StartValues == (-MaxOff)..(MaxEntries - 1 + MaxOff)

\* a classic menu after construction: selected_previous_ and selected_focus_
\* are copies of selected, focused_entry is 0
InitClassic ==
  /\ \E n \in 1..MaxEntries, d \in Directions, v \in StartValues,
        g \in 0..MaxPage, f \in BOOLEAN :
       classic = [last |-> "init", size |-> n, direction |-> d, focused |-> f,
                  page |-> g, selected |-> v, focused_entry |-> 0,
                  selected_previous |-> v, selected_focus |-> v,
                  code |-> "none", capture |-> FALSE, ret |-> FALSE]
  /\ MenuInit(0, 0)
  /\ source = ReferenceSource
  /\ probe = NoProbe

NextClassic ==
  \/ \E e \in MenuEvents(classic.size), capture \in BOOLEAN :
       MenuOnEvent(e, capture)
  \/ MenuRender
  \/ \E v \in StartValues : MenuSetSelected(v)
  \/ MenuLoseFocus

SpecClassic == InitClassic /\ [][NextClassic]_vars

\* ===================================================================== claims

InRange(id) == 0 <= id /\ id <= ds_size - 1

\* C1: for a non-empty dataset and an in-range focused_id, the id s returned by
\* find_start_id is a row of the dataset from which focused_id is reached by
\* at most H-1 forward steps (never a backward one); with H <= 1, s is
\* focused_id.
C1_StartReachesFocus ==
  (pc = "rendered" /\ ds_size >= 1 /\ InRange(focused_id)) =>
    /\ InRange(estimated_start_id)
    /\ IF component_height <= 1
         THEN estimated_start_id = focused_id
         ELSE focused_id - estimated_start_id \in 0..(component_height - 1)

C1_Witness ==
  /\ pc = "rendered"
  /\ component_height = 3
  /\ ds_size = 4
  /\ focused_id = 3
  /\ estimated_start_id = 1

\* C2: after every render pass with an in-range focused_id the pane is filled
\* if at all possible: items_produced = min(H, N).
C2_PaneFilled ==
  (pc = "rendered" /\ ds_size >= 1 /\ InRange(focused_id)) =>
    items_produced = Min(component_height, ds_size)

C2_Witness ==
  /\ pc = "rendered"
  /\ focused_id = ds_size - 1
  /\ component_height = 3
  /\ ds_size > component_height
  /\ items_produced = component_height

\* C3 as stated: from the render pass until the next one, the reflect step
\* included, 0 <= items_produced <= component_height and
\* items_produced <= items_total.
C3_Original ==
  (last_op \in {"render", "reflect", "scroll"}) =>
    /\ 0 <= items_produced
    /\ items_produced <= component_height
    /\ items_produced <= items_total

\* C3 amended: right after the render pass 0 <= items_produced <=
\* min(component_height, items_total); items_produced <= items_total keeps
\* holding through the reflect step and after it.
C3_ProducedBounded ==
  /\ 0 <= items_produced
  /\ items_produced <= items_total
  /\ (pc = "rendered" => items_produced <= component_height)

C3_Witness ==
  /\ pc = "rendered"
  /\ items_produced = 3
  /\ component_height = 3
  /\ items_total = 4

\* C4: after any keyboard event delivered to OnEvent on a non-empty dataset,
\* focused_id lies in [starting_id, ending_id], whatever it was before.
C4_FocusInRange ==
  (last_op = "event" /\ ev.code \in Keys /\ ds_size >= 1) =>
    /\ dataset_size(ds_size).starting_id <= focused_id
    /\ focused_id <= dataset_size(ds_size).ending_id

C4_Witness ==
  /\ last_op = "event"
  /\ ev.code = "PageDown"
  /\ ev.capture
  /\ ev.handled
  /\ items_visible >= 2
  /\ focused_id = ds_size - 1

\* C5: with items_total and the measured pane height fixed, no more than two
\* consecutive frames request a redraw.
C5_RedrawConverges == redraw_run <= 2

C5_Witness ==
  /\ pc = "reflected"
  /\ redraw_requested
  /\ redraw_run = 1
  /\ ~should_redraw
  /\ items_total > component_height
  /\ items_produced >= 1

\* C6 as stated, in its growing case: the frame whose reflect step measures
\* the new pane height requests a redraw whenever its items_produced falls
\* short of min(component_height, items_total); taken for frames that
\* rendered at least one row, so the height the render pass used was a
\* measured one.
C6_Original ==
  (pc = "reflected" /\ items_produced >= 1
     /\ items_produced < Min(component_height, items_total)) =>
    redraw_requested

\* C7: on the integer dataset 0..N-1 the render pass sets estimated_start_id
\* to max(0, min(focused_id - floor(H/2), N - H)).
C7_EstimatedStart ==
  (pc = "rendered" /\ ds_size >= 1 /\ InRange(focused_id)) =>
    estimated_start_id =
      Max(0, Min(focused_id - (component_height \div 2),
                 ds_size - component_height))

C7_Witness ==
  /\ pc = "rendered"
  /\ ds_size = 4
  /\ component_height = 2
  /\ focused_id = 2
  /\ estimated_start_id = 1

\* C8 as stated: whenever the scroll indicator is drawn, its span
\* [start_y, end_y] is contained in [y_min, y_max + 1]; with start_point and
\* end_point as fractions over items_total: 0 <= start_point <= end_point <= h.
C8_Original ==
  (last_op = "scroll" /\ items_produced < items_total) =>
    LET bx == IndicatorBox(pane_h)
        sn == StartNum(real_start_id, bx)
        en == EndNum(real_start_id, items_visible, bx)
    IN  /\ 0 <= sn
        /\ sn <= en
        /\ en <= items_total * WidgetHeight(bx)

\* C9 as stated: stepping an in-range id by +k and then by -k returns the
\* original id, for every k with |k| <= items_total.
C9_Original == probe.pc = "done" => probe.id = probe.id0

\* C9 amended: the round trip returns the original id when id + k is itself a
\* row of the dataset; otherwise the first step clamps to the nearer end and
\* the result is that end moved by -k and clamped.
C9_RoundTrip ==
  probe.pc = "done" =>
    LET last == probe.size - 1
        out  == probe.id0 + probe.k
    IN  IF 0 <= out /\ out <= last
          THEN probe.id = probe.id0
          ELSE IF out > last
                 THEN probe.id = Max(0, last - probe.k)
                 ELSE probe.id = Min(last, 0 - probe.k)

C9_Witness ==
  /\ probe.pc = "done"
  /\ probe.size = 4
  /\ probe.k = -1
  /\ probe.id0 = 1
  /\ probe.id = 1

\* C10: in every frame transform is called exactly items_produced times, the
\* first call with estimated_start_id and each later call with the next row.
C10_TransformOrder ==
  (pc = "rendered") =>
    /\ Len(transform_calls) = items_produced
    /\ (items_produced >= 1 => transform_calls[1].id = estimated_start_id)
    /\ \A i \in 1..(Len(transform_calls) - 1) :
         /\ transform_calls[i + 1].id = transform_calls[i].id + 1
         /\ transform_calls[i + 1].id <= dataset_size(ds_size).ending_id

C10_Witness ==
  /\ pc = "rendered"
  /\ Len(transform_calls) = 3
  /\ estimated_start_id = 1
  /\ transform_calls[3].id = 3


\* C11 (as stated): when transform mutates ctx.id, the rows of the frame are
\* the rows of a transform that leaves ctx.id alone: the ids handed to transform
\* are consecutive from estimated_start_id, and items_produced is the number of
\* rows between estimated_start_id and the end of the dataset, at most H.
C11_Original ==
  (pc = "rendered" /\ source.shift # 0 /\ ds_size >= 1) =>
    /\ items_produced = Min(component_height, ds_size - estimated_start_id)
    /\ \A i \in 1..Len(transform_calls) :
         transform_calls[i].id = estimated_start_id + (i - 1)

\* move_id_by(id, 0) on the reference data source, written out
ClampId(id) ==
  IF ds_size = 0 THEN 0
  ELSE IF id < 0 THEN 0
  ELSE IF id > ds_size - 1 THEN ds_size - 1 ELSE id

\* C12: after every event whose capture was granted, the hook was called
\* exactly once, it saw the ctx.handled and the focused_id the viewport's own
\* handling produced, and OnEvent returned the hook's verdict.
C12_HookAfterHandling ==
  (last_op = "event" /\ ev.capture) =>
    /\ ev.hook_calls = 1
    /\ ev.hook_saw = ev.handled
    /\ ev.hook_fid = focused_id
    /\ ev.ret = ev.hook_ret
    /\ (ev.hook = "true" => ev.ret)
    /\ (ev.hook = "false" => ~ev.ret)

\* a left click on a row, handled by the viewport and vetoed by the hook
C12_Witness ==
  /\ last_op = "event" /\ ev.capture
  /\ ev.code = "Left" /\ ev.handled
  /\ ev.hook = "false" /\ ~ev.ret /\ ev.hook_calls = 1

\* C13: an event whose capture is denied returns false without calling the
\* hook, and changes nothing but focused_id, which becomes its clamped value
\* (itself when it was in range).
C13_DeniedDropped ==
  [][(last_op' = "event" /\ ~ev'.capture) =>
       /\ ~ev'.ret
       /\ ev'.hook_calls = 0
       /\ focused_id' = ClampId(focused_id)
       /\ (InRange(focused_id) => focused_id' = focused_id)
       /\ UNCHANGED << hovered_id, comp_focused, estimated_start_id,
                       real_start_id, items_visible, items_total,
                       items_produced, component_height, screen_height,
                       should_redraw, box_, boxes_, ds_size, pane_h >>]_vars

\* a left click on a hovered row whose capture was denied
C13_Witness ==
  /\ last_op = "event" /\ ~ev.capture /\ ev.code = "Left"
  /\ hovered_id # NoneId /\ items_produced >= 1

\* C16: for a keyboard event whose capture was granted, ctx.handled is true
\* exactly when focused_id differs from its value right after the re-clamp;
\* ArrowUp on the first row, ArrowDown on the last, Home / End on a cursor
\* already there, an unrecognised key and any key of an unfocused component
\* leave focused_id alone and are not handled; the default hook returns the
\* flag.
C16_KeyHandled ==
  [][(last_op' = "event" /\ ev'.capture /\ ev'.code \in Keys) =>
       LET start == ClampId(focused_id)
           last  == Max(ds_size - 1, 0)
           noop  == \/ ~comp_focused
                    \/ ev'.code = "Return"
                    \/ ev'.code \in {"ArrowUp", "Home"} /\ start = 0
                    \/ ev'.code \in {"ArrowDown", "End"} /\ start = last
       IN  /\ ev'.handled <=> (focused_id' # start)
           /\ noop => (~ev'.handled /\ focused_id' = start)
           /\ ev'.hook = "default" => (ev'.ret <=> ev'.handled)]_vars

\* ArrowDown on the last row of a focused menu: not handled
C16_Witness ==
  /\ last_op = "event" /\ ev.capture /\ ev.code = "ArrowDown"
  /\ comp_focused /\ ds_size >= 2 /\ focused_id = ds_size - 1
  /\ ~ev.handled /\ ~ev.ret /\ ev.hook = "default"

\* C14 (as stated): a wheel event outside the pane box whose capture was
\* granted is not handled and leaves focused_id (at its clamped value),
\* hovered_id and the rest of the viewport state as they were.
C14_Original ==
  [][(last_op' = "event" /\ ev'.capture
        /\ ev'.code \in {"WheelUp", "WheelDown"} /\ ~ev'.in_pane) =>
       /\ ~ev'.handled
       /\ focused_id' = ClampId(focused_id)
       /\ hovered_id' = hovered_id
       /\ UNCHANGED << comp_focused, estimated_start_id, real_start_id,
                       items_visible, items_total, items_produced,
                       component_height, screen_height, should_redraw,
                       box_, boxes_ >>]_vars

\* rows whose box survived clipping in the last frame
RowsSeen == count_valid_boxes(boxes_).valid

\* C15 (as stated): once a frame has completed, PageDown / PageUp on a focused
\* component move focused_id by the number of rows of the last frame, clamped
\* at the ends of the dataset.
C15_Original ==
  [][(last_op' = "event" /\ ev'.capture /\ comp_focused /\ screen_height > 0
        /\ ev'.code \in {"PageDown", "PageUp"}) =>
       focused_id' =
         ClampId(ClampId(focused_id)
                   + (IF ev'.code = "PageDown" THEN RowsSeen ELSE -RowsSeen))]_vars

\* C17: with an empty dataset the render pass calls transform for no row and
\* items_produced is 0, whatever the pane height and focused_id are.
C17_EmptyRendersNothing ==
  (pc = "rendered" /\ ds_size = 0) =>
    /\ items_total = 0
    /\ transform_calls = << >>
    /\ items_produced = 0
    /\ boxes_ = << >>

\* an empty dataset rendered in a measured pane of MaxH lines, the application
\* having written an out-of-range focused_id
C17_Witness ==
  /\ pc = "rendered" /\ ds_size = 0
  /\ component_height = MaxH /\ focused_id = -1
  /\ items_produced = 0

\* C18 (as stated): with an empty dataset the viewport's own handling of a
\* key or mouse event whose capture was granted yields handled = false.
C18_Original ==
  (last_op = "event" /\ ev.capture /\ ds_size = 0) => ~ev.handled

RECURSIVE StepsForward(_, _, _)
\* the id reached from id by k calls of move_id_by(id, +1)
StepsForward(id, k, size) ==
  IF k <= 0 THEN id ELSE StepsForward(MoveTo(id, 1, size), k - 1, size)

\* C19 (as stated): when the scroll step has set real_start_id, first_visible
\* is not negative and real_start_id is the id first_visible forward steps
\* after estimated_start_id.
C19_Original ==
  (last_op = "scroll" /\ items_produced < items_total) =>
    LET first_visible == count_valid_boxes(boxes_).first_visible
    IN  /\ first_visible >= 0
        /\ real_start_id =
             StepsForward(estimated_start_id, first_visible, ds_size)

\* C20 (as stated): over a dataset with the ids 0, 2, 4, ... every id the
\* viewport stores or hands to a callback is an id of the dataset:
\* estimated_start_id, real_start_id (the argument of count_items_before),
\* focused_id after an event, the ids handed to transform; hovered_id is an id
\* of the dataset or the none sentinel.
C20_Original ==
  (source.stride > 1 /\ ds_size >= 1) =>
    /\ estimated_start_id \in DatasetIds(ds_size)
    /\ real_start_id \in DatasetIds(ds_size)
    /\ \A i \in 1..Len(transform_calls) :
         transform_calls[i].id \in DatasetIds(ds_size)
    /\ hovered_id \in DatasetIds(ds_size) \cup {NoneId}
    /\ (last_op = "event" => focused_id \in DatasetIds(ds_size))

\* C21 (as stated): every cell the scroll indicator writes is in the right-most
\* column of its box and on a line of the box.
C21_Original ==
  last_op = "scroll" =>
    LET bx == IndicatorBox(pane_h)
    IN  \A i \in 1..Len(ScrollCells) :
          /\ ScrollCells[i].x = bx.x_max
          /\ bx.y_min <= ScrollCells[i].y
          /\ ScrollCells[i].y <= bx.y_max

\* C22: a frame that ends with items_produced >= items_total has written no
\* cell of the indicator column, and one with items_produced < items_total has
\* written at least one.
C22_IndicatorSuppressed ==
  last_op = "scroll" =>
    IF items_produced >= items_total
      THEN ScrollCells = << >>
      ELSE Len(ScrollCells) >= 1

\* both rows of a two-row dataset fit in a measured pane of three lines: no indicator
C22_Witness ==
  /\ last_op = "scroll" /\ ds_size = 2 /\ component_height = 3
  /\ items_produced = 2 /\ items_total = 2
  /\ ScrollCells = << >>

\* C23: a reflect step measures component_height, requests a redraw exactly
\* when should_redraw was set or (items_total # items_produced and items_total >
\* the new component_height and the new component_height # items_produced),
\* and leaves should_redraw false.
C23_RedrawExactly ==
  [][(pc = "rendered" /\ pc' = "reflected") =>
       /\ component_height' = pane_h
       /\ redraw_requested' <=>
            \/ should_redraw
            \/ /\ items_total # items_produced
               /\ items_total > component_height'
               /\ component_height' # items_produced
       /\ ~should_redraw']_vars

\* a redraw requested by the flag alone (all rows are shown), the flag cleared
C23_Witness ==
  /\ pc = "reflected" /\ redraw_requested /\ ~should_redraw
  /\ items_total >= 1 /\ items_total = items_produced

C25_WheelInside ==
  [][(last_op' = "event" /\ ev'.capture /\ ev'.in_pane
        /\ ev'.code \in {"WheelUp", "WheelDown"}) =>
       /\ focused_id' =
            ClampId(ClampId(focused_id)
                      + (IF ev'.code = "WheelDown" THEN 1 ELSE -1))
       /\ ev'.handled
       /\ hovered_id' = hovered_id
       /\ comp_focused' = comp_focused]_vars

\* WheelDown on the last row of an unfocused menu with a hovered row
C25_Witness ==
  /\ last_op = "event" /\ ev.capture /\ ev.in_pane /\ ev.code = "WheelDown"
  /\ ~comp_focused /\ hovered_id # NoneId
  /\ ds_size >= 2 /\ focused_id = ds_size - 1 /\ ev.handled

\* C26: the placement of a render pass makes one initial jump, at most H
\* forward probes move_id_by(id, +1) and at most H backward probes
\* move_id_by(start_id, -1), H being the pane height the pass used, whatever
\* the dataset size and the cursor are.
C26_ProbesBounded ==
  pc = "rendered" =>
    /\ move_calls.jump = 1
    /\ move_calls.forward <= component_height
    /\ move_calls.back <= component_height

\* the cursor on the last row of a dataset larger than the pane: forward
\* probes reach the end, one backward probe pulls the viewport up
C26_Witness ==
  /\ pc = "rendered" /\ ds_size = 4 /\ component_height = 3
  /\ focused_id = 3 /\ estimated_start_id = 1
  /\ move_calls.forward = 2 /\ move_calls.back = 1

\* C27 (as stated): a render pass over an empty dataset makes no move_id_by
\* call.
C27_Original ==
  (pc = "rendered" /\ ds_size = 0) => move_calls = NoCalls

\* C28: in a render pass over a non-empty dataset, with a pane height of at
\* least 1 and focused_id in range, exactly one transform call has focused set,
\* and it is the call for focused_id.
C28_CursorRowRendered ==
  (pc = "rendered" /\ ds_size >= 1 /\ component_height >= 1
     /\ InRange(focused_id)) =>
    LET marked == {i \in 1..Len(transform_calls) : transform_calls[i].focused}
    IN  /\ Cardinality(marked) = 1
        /\ \A i \in marked : transform_calls[i].id = focused_id

\* the cursor was moved to the last row by events and is rendered as the last
\* row of a full pane
C28_Witness ==
  /\ pc = "rendered" /\ ds_size = 3 /\ component_height = 2
  /\ focused_id = 2 /\ Len(transform_calls) = 2
  /\ transform_calls[2].focused /\ ~transform_calls[1].focused

\* C29 (as stated), for the frames that showed at least one row: when the
\* scroll indicator is drawn, some cell of its column holds a bar glyph once
\* the render is over.
C29_Original ==
  (last_op = "scroll" /\ items_produced < items_total /\ items_visible >= 1) =>
    \E i \in 1..Len(ScrollCells) :
       /\ ScrollCells[i].ch # "blank"
       /\ LastWrite(ScrollCells, i)

\* C30: in a classic menu with at least one entry, selected and focused_entry
\* are in 0..size-1 after every OnEvent and every Render; a Tab handled on the
\* last entry selects entry 0 and a TabReverse handled on entry 0 selects the
\* last entry.
C30_ClassicInRange ==
  [][(classic'.last \in {"event", "render"}) =>
       /\ 0 <= classic'.selected
       /\ classic'.selected <= classic.size - 1
       /\ 0 <= classic'.focused_entry
       /\ classic'.focused_entry <= classic.size - 1
       /\ (classic'.last = "event" /\ classic'.capture /\ classic.focused) =>
            LET before == IF classic.selected < 0 THEN 0
                          ELSE IF classic.selected > classic.size - 1
                                 THEN classic.size - 1 ELSE classic.selected
            IN  /\ (classic'.code = "Tab" /\ before = classic.size - 1)
                     => classic'.selected = 0
                /\ (classic'.code = "TabReverse" /\ before = 0)
                     => classic'.selected = classic.size - 1]_vars

\* Tab on the last of three entries wrapped to entry 0
C30_Witness ==
  /\ classic.last = "event" /\ classic.code = "Tab" /\ classic.capture
  /\ classic.size = 3 /\ classic.selected = 0 /\ classic.focused_entry = 0
  /\ classic.selected_previous = 0 /\ classic.ret

====
